---- MODULE Spec2Model ----
(***************************************************************************)
(* The real-time notification channel of aws-cost-sentinel: the            *)
(* WebSocketClient class (connection life cycle, reconnect backoff,        *)
(* heartbeat timer) together with the browser WebSocket objects it owns.   *)
(*                                                                         *)
(* One step of the model is one event-loop turn: a call made by the        *)
(* application (connect, disconnect, on/removeListener), a timer callback, *)
(* or a task of one transport (the WebSocket object changes readyState and *)
(* dispatches its events to the handlers the client installed on it).      *)
(*                                                                         *)
(* A WebSocket changes readyState and fires its events as the WebSocket    *)
(* interface prescribes: open when the connection is established; on a     *)
(* failure readyState CLOSED, then error and close (abnormal code) in one  *)
(* task; close() moves a connecting or open socket to CLOSING at once and  *)
(* the close event follows in a later task; the peer's closing handshake   *)
(* moves an open socket to CLOSING without any event. Frames of the peer    *)
(* are delivered, one message event each, while the socket is open and     *)
(* while it is closing at the client's request; after the peer's closing   *)
(* handshake no frame follows.                                             *)
(*                                                                         *)
(* new WebSocket(wsUrl) throws (a malformed or disallowed URL) for every   *)
(* call of one client or for none, since wsUrl is made of the base URL of  *)
(* the build and of the percent-encoded token and filters.                 *)
(***************************************************************************)
EXTENDS Integers, Sequences, FiniteSets, TLC

\* ----------------------------------------------------------------- bounds
\* WebSocket objects one behaviour may construct.
MaxTransports == 3
\* Timer handles that may be live (armed, or still referenced) at one time.
MaxTimers == 3
\* Largest configured options.reconnectAttempts.
MaxAttempts == 2
\* Cap on reconnectCount (only reached when the retry limit does not apply).
MaxCount == 3

\* ------------------------------------------------------ program constants
\* The close code of a normal closure.
NormalClosure == 1000
\* The heartbeat period in milliseconds.
PingPeriod == 30000

\* Close codes a close event may carry: normal, going away, abnormal.
CloseCodes == {NormalClosure, 1001, 1006}
\* The default of options.reconnectDelay in milliseconds.
DefaultDelay == 5000
\* Configurations of options.reconnectDelay (the default and another one).
BaseDelays == {5000, 1000}

\* The types of inbound envelopes handleMessage has a case for, with the
\* notification each one is dispatched to.
Dedicated ==
  [ cost_update |-> "costUpdate", waste_detected |-> "wasteDetected",
    recommendation_ready |-> "recommendationReady",
    job_status |-> "jobStatus", account_status |-> "accountStatus",
    error |-> "serverError" ]
\* The non-empty type strings of the inbound envelopes: the heartbeat
\* types, the dispatched ones, and one the switch has no case for.
MessageTypes == {"ping", "pong"} \cup DOMAIN Dedicated \cup {"custom"}
\* The values of server_time a ping of the peer carries.
ServerTimes == {1, 2}

\* The payloads of message events that are JSON objects with a non-empty
\* type; a ping carries the server's time.
TypedFrames ==
  { [parse |-> "object", hasType |-> TRUE, type |-> "ping",
     server_time |-> n] : n \in ServerTimes }
  \cup { [parse |-> "object", hasType |-> TRUE, type |-> ty,
          server_time |-> 0] : ty \in MessageTypes \ {"ping"} }

\* The other payloads: text that is not JSON, the JSON value null, a JSON
\* object without a type field, and one whose type is the empty string.
UntypedFrames ==
  { [parse |-> "invalid", hasType |-> FALSE, type |-> "", server_time |-> 0],
    [parse |-> "null", hasType |-> FALSE, type |-> "", server_time |-> 0],
    [parse |-> "object", hasType |-> FALSE, type |-> "", server_time |-> 0],
    [parse |-> "object", hasType |-> TRUE, type |-> "", server_time |-> 0] }

\* No message event: the step received no frame.
NoDelivery ==
  [data |-> [parse |-> "none", hasType |-> FALSE, type |-> "",
             server_time |-> 0],
   raises |-> FALSE]

\* The messages the application hands to send().
CallerMessages == { [type |-> "command", arg |-> << >>] }

\* options.token, the credential of the application.
Token == "token"
\* No WebSocket was constructed: the step built no URL.
NoUrl == [token |-> "", filters |-> << >>]

\* options.filters left undefined.
NoFilters == [defined |-> FALSE, fields |-> {}]
\* Filter sets the caller may declare: each names the fields it has.
FilterSets ==
  { [defined |-> TRUE, fields |-> {"message_types"}],
    [defined |-> TRUE, fields |-> {"account_ids"}] }

VARIABLES
  ws,                \* this.ws: index into sockets, 0 for null
  sockets,           \* every WebSocket constructed so far, in order
  reconnectCount,    \* this.reconnectCount
  pingInterval,      \* this.pingInterval: a timer handle, 0 for null
  reconnectTimeout,  \* this.reconnectTimeout: a timer handle, 0 for null
  isConnecting,      \* this.isConnecting
  shouldReconnect,   \* this.shouldReconnect
  timers,            \* the armed timers: records [id, kind, delay]
  reconnectAttempts, \* this.options.reconnectAttempts
  reconnectDelay,    \* this.options.reconnectDelay
  wsThrows,          \* whether new WebSocket(wsUrl) throws for this wsUrl
  errorListener,     \* whether a listener is registered for 'error'
  filters,           \* this.options.filters
  declared,          \* the filters the application gave last (to the
                     \* constructor or to updateFilters)
  hooked,            \* whether the client is the one of useWebSocket
  hookState,         \* connectionState of useWebSocket
  emitted,           \* notifications emitted by the last step, in order
  sent,              \* frames put on the wire by the last step, in order
  abnormalRun,       \* abnormal closures since the last open (or the start)
  last               \* the last step: [op, by, t, created, closed, thrown,
                     \* cancelled, received, code, url]

vars == << ws, sockets, reconnectCount, pingInterval, reconnectTimeout,
           isConnecting, shouldReconnect, timers, reconnectAttempts,
           reconnectDelay, wsThrows, errorListener, filters, declared,
           hooked, hookState, emitted, sent, abnormalRun, last >>

\* ------------------------------------------------------------- the state
\* The client's fields and its environment as one value, on which the
\* methods below act; overflow marks a step that would exceed a bound.
State ==
  [ ws |-> ws, sockets |-> sockets, reconnectCount |-> reconnectCount,
    pingInterval |-> pingInterval, reconnectTimeout |-> reconnectTimeout,
    isConnecting |-> isConnecting, shouldReconnect |-> shouldReconnect,
    timers |-> timers, filters |-> filters, declared |-> declared,
    url |-> NoUrl, emitted |-> << >>,
    sent |-> << >>, received |-> NoDelivery, code |-> 0,
    created |-> 0, closed |-> << >>, thrown |-> FALSE, overflow |-> FALSE ]

\* readyState of this.ws ("NONE" when this.ws is null).
ReadyStateOf(s) ==
  IF s.ws = 0 THEN "NONE" ELSE s.sockets[s.ws].readyState

TimerIds(s) == { x.id : x \in s.timers }

\* A handle no armed timer and no field of the client holds.
FreeTimerIds(s) ==
  (1..MaxTimers) \ (TimerIds(s) \cup {s.pingInterval, s.reconnectTimeout})

NewTimerId(s) ==
  CHOOSE i \in FreeTimerIds(s) : \A j \in FreeTimerIds(s) : i <= j

\* clearInterval / clearTimeout: disarms the timer with this handle, if any.
clearTimer(s, id) ==
  [s EXCEPT !.timers = { x \in @ : x.id # id }]

\* EventEmitter.emit(ev, ...): notifies the listeners of ev; armed is what
\* a listener finds at that moment: the handles of the armed timers.
emit(s, ev, arg) ==
  [s EXCEPT !.emitted = Append(@, [ev |-> ev, arg |-> arg,
                                   armed |-> TimerIds(s)])]

\* EventEmitter.emit('error', e): with no listener for 'error' it throws e.
emitError(s) ==
  IF errorListener THEN emit(s, "error", << >>)
  ELSE [s EXCEPT !.thrown = TRUE]

\* Math.pow(1.5, k) as the fraction << numerator, denominator >>.
RECURSIVE pow15(_)
pow15(k) ==
  IF k = 0 THEN << 1, 1 >>
  ELSE << 3 * pow15(k - 1)[1], 2 * pow15(k - 1)[2] >>

\* The delay with the attempt number itself as the exponent.
backoffDelayOffByOne(count) ==
  << reconnectDelay * pow15(count)[1], pow15(count)[2] >>

\* this.options.reconnectDelay * Math.pow(1.5, this.reconnectCount - 1)
backoffDelay(count) ==
  << reconnectDelay * pow15(count - 1)[1], pow15(count - 1)[2] >>

\* ---------------------------------------------------------- the methods
\* cleanup() that forgets the reconnect timer.
cleanupKeepsReconnect(s) ==
  IF s.pingInterval # 0
  THEN [clearTimer(s, s.pingInterval) EXCEPT !.pingInterval = 0]
  ELSE s

cleanup(s) ==
  LET a == IF s.pingInterval # 0
           THEN [clearTimer(s, s.pingInterval) EXCEPT !.pingInterval = 0]
           ELSE s
  IN  IF a.reconnectTimeout # 0
      THEN [clearTimer(a, a.reconnectTimeout) EXCEPT !.reconnectTimeout = 0]
      ELSE a

\* The guard of scheduleReconnect without its test of shouldReconnect.
reconnectRefusedIgnoresFlag(s) ==
  reconnectAttempts # 0 /\ s.reconnectCount >= reconnectAttempts

\* The guard of scheduleReconnect: 0 (like undefined) is falsy in
\* "this.options.reconnectAttempts && ...", so no limit applies to it.
reconnectRefused(s) ==
  \/ ~s.shouldReconnect
  \/ (reconnectAttempts # 0 /\ s.reconnectCount >= reconnectAttempts)

scheduleReconnect(s) ==
  IF reconnectRefused(s) THEN emit(s, "reconnectFailed", << >>)
  ELSE IF s.reconnectCount >= MaxCount \/ FreeTimerIds(s) = {}
  THEN [s EXCEPT !.overflow = TRUE]
  ELSE
    LET n  == s.reconnectCount + 1
        d  == backoffDelay(n)
        a  == emit([s EXCEPT !.reconnectCount = n], "reconnecting",
                   << n, reconnectAttempts, d[1], d[2] >>)
        id == NewTimerId(a)
    IN  [a EXCEPT !.reconnectTimeout = id,
                  !.timers = @ \cup {[id |-> id, kind |-> "reconnect",
                                      delay |-> d]}]

\* The URL without the filters parameter.
wsUrlWithoutFilters(s) == [token |-> Token, filters |-> << >>]

\* wsUrl: the query carries the token and, when options.filters is set,
\* the serialised filters (the fields they have).
wsUrl(s) ==
  [token |-> Token,
   filters |-> IF s.filters.defined THEN << s.filters.fields >> ELSE << >>]

\* The guard of connect(): nothing is done while it holds.
connectRefused(s) ==
  ReadyStateOf(s) = "OPEN" \/ s.isConnecting

\* connect() that starts the retry count afresh.
connectResetsCounter(s) ==
  IF connectRefused(s) THEN s
  ELSE
    LET a == [s EXCEPT !.isConnecting = TRUE, !.reconnectCount = 0,
                       !.url = wsUrl(s)]
    IN  IF wsThrows
        THEN LET b == emitError([a EXCEPT !.isConnecting = FALSE])
             IN  IF b.thrown THEN b ELSE scheduleReconnect(b)
        ELSE IF Len(a.sockets) >= MaxTransports
        THEN [a EXCEPT !.overflow = TRUE]
        ELSE [a EXCEPT
                !.sockets = Append(@, [readyState |-> "CONNECTING",
                                       established |-> FALSE,
                                       inbound |-> FALSE]),
                !.ws = Len(a.sockets) + 1,
                !.created = Len(a.sockets) + 1]

connect(s) ==
  IF connectRefused(s) THEN s
  ELSE
    LET a == [s EXCEPT !.isConnecting = TRUE, !.url = wsUrl(s)]
    IN  IF wsThrows
        THEN \* catch (error)
          LET b == emitError([a EXCEPT !.isConnecting = FALSE])
          IN  IF b.thrown THEN b ELSE scheduleReconnect(b)
        ELSE IF Len(a.sockets) >= MaxTransports
        THEN [a EXCEPT !.overflow = TRUE]
        ELSE [a EXCEPT
                !.sockets = Append(@, [readyState |-> "CONNECTING",
                                       established |-> FALSE,
                                       inbound |-> FALSE]),
                !.ws = Len(a.sockets) + 1,
                !.created = Len(a.sockets) + 1]

\* WebSocket.close(code): starts closing a transport that is neither
\* closing nor closed; the call is recorded in either case.
wsClose(s, t, code) ==
  LET a == [s EXCEPT !.closed = Append(@, << t, code >>)]
  IN  IF s.sockets[t].readyState \in {"CONNECTING", "OPEN"}
      THEN [a EXCEPT !.sockets[t].readyState = "CLOSING"]
      ELSE a

disconnect(s) ==
  LET a == cleanup([s EXCEPT !.shouldReconnect = FALSE])
  IN  IF a.ws # 0 THEN wsClose(a, a.ws, NormalClosure) ELSE a

send(s, msg) ==
  IF ReadyStateOf(s) = "OPEN"
  THEN [s EXCEPT !.sent = Append(@, [t |-> s.ws, msg |-> msg])]
  ELSE emitError(s)

\* updateFilters that merges the new filters into the stored ones.
updateFiltersMerging(s, f) ==
  LET m == [defined |-> TRUE, fields |-> s.filters.fields \cup f.fields]
  IN  send([s EXCEPT !.filters = m], [type |-> "subscribe", arg |-> << m >>])

updateFilters(s, f) ==
  send([s EXCEPT !.filters = f], [type |-> "subscribe", arg |-> << f >>])

\* emit(ev, message) with a listener of ev that may throw: the exception
\* leaves emit.
notify(s, ev, m, raises) ==
  IF raises THEN [emit(s, ev, << m >>) EXCEPT !.thrown = TRUE]
  ELSE emit(s, ev, << m >>)

\* The switch of handleMessage: the case of message.type.
dispatch(s, m, raises) ==
  CASE m.parse = "null" -> [s EXCEPT !.thrown = TRUE]
    [] m.parse # "null" /\ m.hasType /\ m.type = "ping" ->
         send(s, [type |-> "pong", arg |-> << m.server_time >>])
    [] m.parse # "null" /\ m.hasType /\ m.type = "pong" -> s
    [] m.parse # "null" /\ m.hasType /\ m.type \in DOMAIN Dedicated ->
         notify(s, Dedicated[m.type], m, raises)
    [] OTHER -> notify(s, "message", m, raises)

\* handleMessage that publishes on rawMessage before the switch.
handleMessageRawFirst(s, m, raises) ==
  IF m.parse = "null" THEN [s EXCEPT !.thrown = TRUE]
  ELSE dispatch(emit(s, "rawMessage", << m >>), m, raises)

handleMessage(s, m, raises) ==
  LET a == dispatch(s, m, raises)
  IN  IF a.thrown THEN a ELSE emit(a, "rawMessage", << m >>)

startPingInterval(s) ==
  IF FreeTimerIds(s) = {} THEN [s EXCEPT !.overflow = TRUE]
  ELSE LET id == NewTimerId(s)
       IN  [s EXCEPT !.pingInterval = id,
                     !.timers = @ \cup {[id |-> id, kind |-> "ping",
                                         delay |-> << PingPeriod, 1 >>]}]

\* The callback of the heartbeat timer without its test of readyState.
pingTickUnguarded(s) == send(s, [type |-> "ping", arg |-> << >>])

\* The callback of the heartbeat timer.
pingTick(s) ==
  IF ReadyStateOf(s) = "OPEN"
  THEN send(s, [type |-> "ping", arg |-> << >>])
  ELSE s

\* ------------------------------------- the handlers set on a transport
onopen(s) ==
  startPingInterval(
    emit([s EXCEPT !.isConnecting = FALSE, !.reconnectCount = 0],
         "connected", << >>))

\* onclose that schedules a reconnect for a normal closure only.
oncloseInverted(s, code) ==
  LET a == cleanup([s EXCEPT !.isConnecting = FALSE])
      b == emit(a, "disconnected", << code >>)
  IN  IF code = NormalClosure /\ b.shouldReconnect
      THEN scheduleReconnect(b)
      ELSE b

\* onclose that notifies before it clears the timers.
oncloseNotifiesFirst(s, code) ==
  LET a == emit([s EXCEPT !.isConnecting = FALSE], "disconnected", << code >>)
      b == cleanup(a)
  IN  IF code # NormalClosure /\ b.shouldReconnect
      THEN scheduleReconnect(b)
      ELSE b

onclose(s, code) ==
  LET a == cleanup([s EXCEPT !.isConnecting = FALSE])
      b == emit(a, "disconnected", << code >>)
  IN  IF code # NormalClosure /\ b.shouldReconnect
      THEN scheduleReconnect(b)
      ELSE b

\* An exception is caught, or leaves a handler: it does not reach what
\* runs next.
caught(s) == [s EXCEPT !.thrown = FALSE]

\* onmessage that takes a frame as the end of the connection attempt.
onmessageEndsConnecting(s, data, raises) ==
  LET r == [s EXCEPT !.received = [data |-> data, raises |-> raises],
                     !.isConnecting = FALSE]
      a == IF data.parse = "invalid" THEN [r EXCEPT !.thrown = TRUE]
           ELSE handleMessage(r, data, raises)
  IN  IF a.thrown THEN emitError([a EXCEPT !.thrown = FALSE]) ELSE a

\* data is the payload of the event; raises tells whether the listener of
\* the notification the envelope is dispatched to throws.
onmessage(s, data, raises) ==
  LET r == [s EXCEPT !.received = [data |-> data, raises |-> raises]]
      a == IF data.parse = "invalid" THEN [r EXCEPT !.thrown = TRUE]
           ELSE handleMessage(r, data, raises)
  IN  IF a.thrown THEN emitError(caught(a)) ELSE a

onerror(s) ==
  emitError([s EXCEPT !.isConnecting = FALSE])

\* get connectionState(): the state the channel reports.
connectionState(s) ==
  CASE ReadyStateOf(s) = "NONE"       -> "disconnected"
    [] ReadyStateOf(s) = "CONNECTING" -> "connecting"
    [] ReadyStateOf(s) = "OPEN"       -> "connected"
    [] ReadyStateOf(s) = "CLOSING"    -> "closing"
    [] ReadyStateOf(s) = "CLOSED"     -> "disconnected"

\* A transport whose connection is closed.
ClosedSocket ==
  [readyState |-> "CLOSED", established |-> FALSE, inbound |-> FALSE]

\* --------------------------------------------------------------- steps
\* The notifications of one kind among those a step emitted.
Emitted(seq, ev) == { i \in 1..Len(seq) : seq[i].ev = ev }

\* The step reported a closure with a code other than normal closure.
AbnormalClosure(seq) ==
  \E i \in Emitted(seq, "disconnected") : seq[i].arg # << NormalClosure >>

\* The listeners useWebSocket registers: what connectionState becomes
\* when the client emits ev.
setConnectionState(h, ev) ==
  CASE ev = "connected"    -> "connected"
    [] ev = "disconnected" -> "disconnected"
    [] ev = "reconnecting" -> "reconnecting"
    [] OTHER               -> h

\* connectionState of the hook after the notifications of seq, in order.
RECURSIVE hookAfter(_, _)
hookAfter(h, seq) ==
  IF seq = << >> THEN h
  ELSE hookAfter(setConnectionState(h, Head(seq).ev), Tail(seq))

\* The step that leaves the client and its environment as in s.
Becomes(s, op, by, t) ==
  /\ ~s.overflow
  /\ ws' = s.ws
  /\ sockets' = s.sockets
  /\ reconnectCount' = s.reconnectCount
  /\ pingInterval' = s.pingInterval
  /\ reconnectTimeout' = s.reconnectTimeout
  /\ isConnecting' = s.isConnecting
  /\ shouldReconnect' = s.shouldReconnect
  /\ timers' = s.timers
  /\ filters' = s.filters
  /\ declared' = s.declared
  /\ hookState' = IF hooked THEN hookAfter(hookState, s.emitted)
                  ELSE hookState
  /\ emitted' = s.emitted
  /\ sent' = s.sent
  /\ abnormalRun' = IF op = "open" THEN 0
                    ELSE IF AbnormalClosure(s.emitted) /\ abnormalRun <= MaxCount
                    THEN abnormalRun + 1
                    ELSE abnormalRun
  /\ last' = [op |-> op, by |-> by, t |-> t, created |-> s.created,
              closed |-> s.closed, thrown |-> s.thrown,
              cancelled |-> { x.kind : x \in timers \ s.timers },
              received |-> s.received, code |-> s.code, url |-> s.url]
  /\ UNCHANGED << reconnectAttempts, reconnectDelay, wsThrows, errorListener,
                  hooked >>

\* The fields of a client that has just been constructed.
Fresh ==
  /\ ws = 0
  /\ sockets = << >>
  /\ reconnectCount = 0
  /\ pingInterval = 0
  /\ reconnectTimeout = 0
  /\ isConnecting = FALSE
  /\ shouldReconnect = TRUE
  /\ timers = {}
  /\ hookState = "disconnected"
  /\ emitted = << >>
  /\ sent = << >>
  /\ abnormalRun = 0
  /\ last = [op |-> "new", by |-> "caller", t |-> 0, created |-> 0,
             closed |-> << >>, thrown |-> FALSE, cancelled |-> {},
              received |-> NoDelivery, code |-> 0, url |-> NoUrl]

\* A client constructed without filters, under every retry configuration.
Init ==
  /\ Fresh
  /\ reconnectAttempts \in 0..MaxAttempts
  /\ reconnectDelay \in BaseDelays
  /\ wsThrows \in BOOLEAN
  /\ errorListener \in BOOLEAN
  /\ filters = NoFilters
  /\ declared = filters
  /\ hooked = FALSE

\* A client constructed with or without filters, under one retry
\* configuration.
FilterInit ==
  /\ Fresh
  /\ reconnectAttempts = MaxAttempts
  /\ reconnectDelay = DefaultDelay
  /\ wsThrows \in BOOLEAN
  /\ errorListener \in BOOLEAN
  /\ filters \in {NoFilters} \cup FilterSets
  /\ declared = filters
  /\ hooked = FALSE

\* The application calls connect().
Connect == Becomes(connect(State), "connect", "caller", 0)

\* The application calls disconnect().
Disconnect == Becomes(disconnect(State), "disconnect", "caller", 0)

\* The application registers or removes its listener for 'error'.
SetErrorListener ==
  /\ errorListener' = ~errorListener
  /\ emitted' = << >>
  /\ sent' = << >>
  /\ last' = [op |-> "listener", by |-> "caller", t |-> 0, created |-> 0,
              closed |-> << >>, thrown |-> FALSE, cancelled |-> {},
              received |-> NoDelivery, code |-> 0, url |-> NoUrl]
  /\ UNCHANGED << ws, sockets, reconnectCount, pingInterval, reconnectTimeout,
                  isConnecting, shouldReconnect, timers, reconnectAttempts,
                  reconnectDelay, wsThrows, filters, declared,
                  hooked, hookState, abnormalRun >>

\* A reconnect timer fires: it is spent, and its callback calls connect().
ReconnectTimerFires ==
  \E x \in timers :
    /\ x.kind = "reconnect"
    /\ Becomes(connect(clearTimer(State, x.id)), "connect", "timer", x.id)

\* A heartbeat timer ticks; an interval stays armed.
HeartbeatTick ==
  \E x \in timers :
    /\ x.kind = "ping"
    /\ Becomes(pingTick(State), "ping", "timer", x.id)

\* The connection of transport t is established: readyState OPEN, open event.
TransportOpen ==
  \E t \in 1..Len(sockets) :
    /\ sockets[t].readyState = "CONNECTING"
    /\ Becomes(onopen([State EXCEPT !.sockets[t].readyState = "OPEN",
                                    !.sockets[t].established = TRUE,
                                    !.sockets[t].inbound = TRUE]),
               "open", "transport", t)

\* The peer starts the closing handshake: readyState CLOSING, no event.
TransportClosing ==
  \E t \in 1..Len(sockets) :
    /\ sockets[t].readyState = "OPEN"
    /\ Becomes([State EXCEPT !.sockets[t].readyState = "CLOSING",
                              !.sockets[t].inbound = FALSE],
               "closing", "transport", t)

\* The connection of transport t fails: readyState CLOSED, then the error
\* event and the close event (abnormal closure) in the same task.
TransportError ==
  \E t \in 1..Len(sockets) :
    /\ sockets[t].readyState # "CLOSED"
    /\ Becomes(onclose(caught(onerror(
                 [State EXCEPT !.sockets[t] = ClosedSocket,
                               !.code = 1006])), 1006),
               "error", "transport", t)

\* An established connection is closed: readyState CLOSED and the close
\* event with the code of the closure.
TransportClose ==
  \E t \in 1..Len(sockets), code \in CloseCodes :
    /\ sockets[t].readyState \in {"OPEN", "CLOSING"}
    /\ sockets[t].established
    /\ Becomes(onclose([State EXCEPT !.sockets[t] = ClosedSocket,
                                     !.code = code], code),
               "close", "transport", t)

Next ==
  \/ Connect
  \/ Disconnect
  \/ SetErrorListener
  \/ ReconnectTimerFires
  \/ HeartbeatTick
  \/ TransportOpen
  \/ TransportClosing
  \/ TransportError
  \/ TransportClose

Spec == Init /\ [][Next]_vars

\* The application calls updateFilters(f).
UpdateFilters ==
  \E f \in FilterSets :
    Becomes(updateFilters([State EXCEPT !.declared = f], f),
            "updateFilters", "caller", 0)

\* The application calls send(message).
Send ==
  \E m \in CallerMessages : Becomes(send(State, m), "send", "caller", 0)

FilterNext == Next \/ UpdateFilters \/ Send

\* The life cycle together with the outbound calls of the application.
FilterSpec == FilterInit /\ [][FilterNext]_vars

\* A client constructed without filters, under one retry configuration,
\* with or without a listener for 'error' registered before connect().
RouterInit ==
  /\ Fresh
  /\ reconnectAttempts = MaxAttempts
  /\ reconnectDelay = DefaultDelay
  /\ wsThrows = FALSE
  /\ errorListener \in BOOLEAN
  /\ filters = NoFilters
  /\ declared = filters
  /\ hooked = FALSE

\* The envelope reaches a listener of its own notification (the heartbeat
\* types reach none).
Dispatched(data) ==
  data.parse = "object" /\ ~(data.hasType /\ data.type \in {"ping", "pong"})

\* Transport t delivers a frame of the peer: the message event.
Deliver(t, data, raises) ==
  /\ sockets[t].readyState \in {"OPEN", "CLOSING"}
  /\ sockets[t].inbound
  /\ raises => Dispatched(data)
  /\ Becomes(onmessage(State, data, raises), "message", "transport", t)

\* A transport delivers an envelope with a non-empty type.
TransportMessage ==
  \E t \in 1..Len(sockets), data \in TypedFrames, raises \in BOOLEAN :
    Deliver(t, data, raises)

\* A transport delivers a frame that is no envelope with a type, or (so
\* that both kinds of frame follow each other) a cost update.
TransportMalformed ==
  \E t \in 1..Len(sockets), raises \in BOOLEAN,
     data \in UntypedFrames \cup {d \in TypedFrames : d.type = "cost_update"} :
    Deliver(t, data, raises)

RouterNext ==
  \/ Connect
  \/ Disconnect
  \/ ReconnectTimerFires
  \/ HeartbeatTick
  \/ TransportOpen
  \/ TransportClosing
  \/ TransportError
  \/ TransportClose
  \/ TransportMessage

\* The life cycle together with the message router.
RouterSpec == RouterInit /\ [][RouterNext]_vars

ParserNext ==
  \/ Connect
  \/ Disconnect
  \/ ReconnectTimerFires
  \/ HeartbeatTick
  \/ TransportOpen
  \/ TransportClosing
  \/ TransportError
  \/ TransportClose
  \/ TransportMalformed

\* The life cycle together with the parsing of inbound frames.
ParserSpec == RouterInit /\ [][ParserNext]_vars

\* Frames of every kind: heartbeat, dispatched, without a case in the
\* switch, and the ones that are no envelope with a type.
MixedFrames ==
  { d \in TypedFrames : d.type \in {"ping", "pong", "cost_update", "custom"} }
    \cup UntypedFrames

\* A transport delivers a frame of any kind.
TransportFrame ==
  \E t \in 1..Len(sockets), data \in MixedFrames, raises \in BOOLEAN :
    Deliver(t, data, raises)

FrameNext ==
  \/ Connect
  \/ Disconnect
  \/ ReconnectTimerFires
  \/ HeartbeatTick
  \/ TransportOpen
  \/ TransportClosing
  \/ TransportError
  \/ TransportClose
  \/ TransportFrame

\* The life cycle together with inbound frames of every kind.
FrameSpec == RouterInit /\ [][FrameNext]_vars

\* A client with a retry limit of at least 1 whose transports can be
\* constructed.
FailingInit ==
  /\ Fresh
  /\ reconnectAttempts \in 1..MaxAttempts
  /\ reconnectDelay \in BaseDelays
  /\ wsThrows = FALSE
  /\ errorListener \in BOOLEAN
  /\ filters \in {NoFilters} \cup FilterSets
  /\ declared = filters
  /\ hooked = FALSE

\* The one call the application makes: connect() on the new client.
InitialConnect == last.op = "new" /\ Connect

\* Every connection attempt fails: no transport ever opens.
FailingNext ==
  \/ InitialConnect
  \/ ReconnectTimerFires
  \/ TransportError

\* The channel facing a server that cannot be reached; an armed timer
\* fires and a transport reports its failure, sooner or later.
FailingSpec ==
  /\ FailingInit
  /\ [][FailingNext]_vars
  /\ WF_vars(ReconnectTimerFires)
  /\ WF_vars(TransportError)

\* The client useWebSocket constructs: the hook registers its listeners
\* (none for 'error') and calls connect(); the application reaches the
\* client through the value the hook returns.
HookInit ==
  /\ Fresh
  /\ reconnectAttempts = MaxAttempts
  /\ reconnectDelay = DefaultDelay
  /\ wsThrows \in BOOLEAN
  /\ errorListener = FALSE
  /\ filters = NoFilters
  /\ declared = filters
  /\ hooked = TRUE

\* The life cycle of the client of useWebSocket.
HookSpec == HookInit /\ [][Next]_vars

\* ------------------------------------------------------------ type check
TypeOK ==
  /\ ws \in 0..Len(sockets)
  /\ Len(sockets) <= MaxTransports
  /\ reconnectCount \in 0..MaxCount
  /\ pingInterval \in 0..MaxTimers
  /\ reconnectTimeout \in 0..MaxTimers
  /\ isConnecting \in BOOLEAN
  /\ shouldReconnect \in BOOLEAN
  /\ \A x \in timers : x.id \in 1..MaxTimers /\ x.kind \in {"ping", "reconnect"}
  /\ filters \in {NoFilters} \cup FilterSets
  /\ declared \in {NoFilters} \cup FilterSets
  /\ hooked \in BOOLEAN
  /\ hookState \in {"disconnected", "connected", "reconnecting"}
  /\ last.received.data \in TypedFrames \cup UntypedFrames \cup {NoDelivery.data}

\* ============================================================== claims
\* The fields of the client (its configuration and the step records apart).
client == << ws, reconnectCount, pingInterval, reconnectTimeout,
             isConnecting, shouldReconnect >>

\* The transports that are connecting or open.
LiveTransports ==
  { t \in 1..Len(sockets) : sockets[t].readyState \in {"CONNECTING", "OPEN"} }

\* The channel's current transport is connecting or open.
CurrentLive == ws # 0 /\ sockets[ws].readyState \in {"CONNECTING", "OPEN"}

\* C1: in every reachable state at most one transport created by the channel
\* is connecting or open, and a connect() (by the caller or by the reconnect
\* timer) made while the current transport is connecting or open creates no
\* transport and changes no state.
C1_SingleLiveTransport ==
  /\ [](Cardinality(LiveTransports) <= 1)
  /\ [][(last'.op = "connect" /\ CurrentLive)
          => /\ last'.created = 0
             /\ UNCHANGED << client, sockets >>
             /\ timers' = { x \in timers :
                              ~(last'.by = "timer" /\ x.id = last'.t) }]_vars

\* C2: once the channel owns a newer transport, an open, close or error
\* callback of a transport it owned before has no effect: the connecting
\* flag, the heartbeat timer and the reconnect timer are left as they are and
\* nothing is emitted.
C2_LateCallbacksIgnored ==
  [][(last'.by = "transport" /\ last'.op \in {"open", "close", "error"}
        /\ last'.t # ws)
       => (UNCHANGED << client, timers >> /\ emitted' = << >>)]_vars

\* The armed timers of one kind.
Armed(kind) == { x \in timers : x.kind = kind }

\* A reconnect is pending: the timer this.reconnectTimeout refers to is armed.
ReconnectPending ==
  \E x \in Armed("reconnect") : x.id = reconnectTimeout

\* C3: a disconnect() made while a reconnect is pending cancels the pending
\* timer, and from then on no timer callback creates a transport: only a
\* connect() of the caller starts a connection attempt again.
C3_DisconnectCancelsReconnect ==
  /\ [][(last'.op = "disconnect" /\ ReconnectPending)
          => (reconnectTimeout' = 0
              /\ \A x \in timers' : x.id # reconnectTimeout)]_vars
  /\ [][(~shouldReconnect' /\ last'.created # 0)
          => (last'.op = "connect" /\ last'.by = "caller")]_vars

\* disconnect() has just cancelled a pending reconnect.
C3_Witness ==
  /\ last.op = "disconnect"
  /\ "reconnect" \in last.cancelled
  /\ ~wsThrows

\* C4: immediately after any disconnect() no heartbeat timer and no
\* reconnect timer created by the channel is armed, the no-auto-reconnect
\* flag is set, and closure with the normal-closure code has been requested
\* on the current transport if there is one, all in that one step.
C4_DisconnectIsAtomic ==
  [][last'.op = "disconnect"
       => /\ timers' = {}
          /\ ~shouldReconnect'
          /\ (ws # 0 => last'.closed = << << ws, NormalClosure >> >>)]_vars

C6_ConnectStartsAttempt ==
  [][(last'.op = "connect" /\ last'.by = "caller" /\ ~wsThrows
        /\ connectionState(State) \notin {"connected", "connecting"})
       => (last'.created # 0 /\ connectionState(State)' = "connecting")]_vars

\* C7: counted from a channel with RetryCounter 0 and the no-auto-reconnect
\* flag unset, the abnormal closure that is number maxReconnectAttempts in a
\* row (no open in between) emits reconnect-exhausted and leaves no
\* reconnect timer armed.
C7_ExhaustedAfterMaxClosures ==
  (/\ last.op \in {"close", "error"}
   /\ AbnormalClosure(emitted)
   /\ shouldReconnect
   /\ abnormalRun = reconnectAttempts)
    => (Emitted(emitted, "reconnectFailed") # {} /\ Armed("reconnect") = {})

\* C8: in every reachable state 0 <= RetryCounter <= maxReconnectAttempts;
\* RetryCounter is 0 right after every open of a transport; between two
\* opens it never decreases and grows by exactly 1 per scheduled reconnect.
C8_RetryCounterBounded ==
  /\ [](0 <= reconnectCount /\ reconnectCount <= reconnectAttempts)
  /\ [][last'.op = "open" => reconnectCount' = 0]_vars
  /\ [][last'.op # "open"
          => reconnectCount' =
               reconnectCount + Cardinality(Emitted(emitted', "reconnecting"))]_vars

\* C9: the delay of reconnect number n, as reported by the reconnecting
\* notification and as armed on the reconnect timer, is
\* baseDelay x 3^(n-1) / 2^(n-1), where n is RetryCounter: 5000, 7500,
\* 11250, ... for baseDelay 5000.
C9_BackoffDelay ==
  \A i \in Emitted(emitted, "reconnecting") :
    LET n   == emitted[i].arg[1]
        num == emitted[i].arg[3]
        den == emitted[i].arg[4]
    IN  /\ n = reconnectCount /\ n >= 1
        /\ num * 2^(n - 1) = reconnectDelay * 3^(n - 1) * den
        /\ (reconnectDelay = 5000 /\ n = 1 => num = 5000 * den)
        /\ (reconnectDelay = 5000 /\ n = 2 => num = 7500 * den)
        /\ (reconnectDelay = 5000 /\ n = 3 => num = 11250 * den)
        /\ \E x \in Armed("reconnect") :
              x.id = reconnectTimeout /\ x.delay = << num, den >>

\* The second reconnect of a run has been scheduled.
C9_Witness ==
  /\ reconnectAttempts >= 2
  /\ \E i \in Emitted(emitted, "reconnecting") : emitted[i].arg[1] = 2

NormalCloseStep == last.op = "close" /\ ~AbnormalClosure(emitted)

\* C11: a close with the normal-closure code schedules no reconnect and
\* emits neither reconnecting nor reconnect-exhausted, whatever the
\* no-auto-reconnect flag is; after such a close of the current transport the
\* channel is disconnected and stays so, with no reconnect pending, until
\* the caller calls connect().
C11_NormalCloseStaysDisconnected ==
  /\ [][NormalCloseStep'
          => /\ Emitted(emitted', "reconnecting") = {}
             /\ Emitted(emitted', "reconnectFailed") = {}
             /\ Armed("reconnect")' = {}
             /\ reconnectCount' = reconnectCount]_vars
  /\ [][(NormalCloseStep' /\ last'.t = ws)
          => connectionState(State)' = "disconnected"]_vars
  /\ [][(/\ NormalCloseStep /\ last.t = ws
         /\ ~(last'.op = "connect" /\ last'.by = "caller"))
          => (connectionState(State)' = "disconnected"
              /\ Armed("reconnect")' = {})]_vars


\* The subscribe frame that carries the filter set f.
SubscribeFrame(f) == [type |-> "subscribe", arg |-> << f >>]

\* C12: updateFilters called while the channel is not connected sends no
\* frame, and every successful open of the current transport is followed by
\* exactly one subscribe frame carrying the stored filter set.
C12_OpenAnnouncesFilters ==
  /\ [][(last'.op = "updateFilters" /\ connectionState(State) # "connected")
          => sent' = << >>]_vars
  /\ [][(last'.op = "open" /\ last'.t = ws /\ filters.defined)
          => sent' = << [t |-> ws, msg |-> SubscribeFrame(filters)] >>]_vars

MessageStep == last.op = "message"
Frame == last.received.data

\* The notifications a subscriber to inbound messages listens to.
TypedChannels == { Dedicated[ty] : ty \in DOMAIN Dedicated }
MessageChannels == TypedChannels \cup {"message", "rawMessage"}

\* The notifications of the last step on the channels of C.
NotifiedOn(C) == { i \in 1..Len(emitted) : emitted[i].ev \in C }

\* The pong frame that echoes the time of the ping m.
PongFrame(m) == [type |-> "pong", arg |-> << m.server_time >>]

\* C14: for every inbound ping, in whatever state the transport is, the
\* client sends exactly one pong frame that echoes the time field of the
\* ping, and emits nothing on the generic message channel.
C14_PingAnsweredByPong ==
  (MessageStep /\ Frame.hasType /\ Frame.type = "ping")
    => /\ Len(sent) = 1
       /\ sent[1].msg = PongFrame(Frame)
       /\ NotifiedOn({"message"}) = {}

\* C15: an inbound ping or pong produces no notification on any subscriber
\* channel: type-specific, generic or raw.
C15_HeartbeatFramesHidden ==
  (MessageStep /\ Frame.hasType /\ Frame.type \in {"ping", "pong"})
    => NotifiedOn(MessageChannels) = {}

\* The channel the router chooses for an envelope of type ty.
ChannelOf(ty) == IF ty \in DOMAIN Dedicated THEN Dedicated[ty] ELSE "message"

\* C16: every well-formed envelope is notified on exactly the channel its
\* type determines and on the raw channel: the six dispatched types on
\* their dedicated channel and never on the generic one, any other type on
\* the generic channel.
C16_RoutedByType ==
  (MessageStep /\ Frame \in TypedFrames /\ Frame.type \notin {"ping", "pong"})
    => /\ Cardinality(NotifiedOn({ChannelOf(Frame.type)})) = 1
       /\ Cardinality(NotifiedOn({"rawMessage"})) = 1
       /\ Cardinality(NotifiedOn(MessageChannels)) = 2

\* C17: every inbound frame that parses results in exactly one notification
\* on the raw channel carrying that envelope, whatever its type and whatever
\* happens in the type-specific dispatch (a subscriber that raises included).
C17_RawAlwaysNotified ==
  (MessageStep /\ Frame.parse # "invalid")
    => /\ Cardinality(NotifiedOn({"rawMessage"})) = 1
       /\ \A i \in NotifiedOn({"rawMessage"}) : emitted[i].arg = << Frame >>

\* C18: frames are dispatched one message event at a time, in the order of
\* the events: every message notification of a step carries the frame of
\* that step, and the type-specific or generic notification comes before
\* the raw one.
C18_DispatchInOrder ==
  MessageStep
    => /\ \A i \in NotifiedOn(MessageChannels) : emitted[i].arg = << Frame >>
       /\ Cardinality(NotifiedOn(MessageChannels \ {"rawMessage"})) <= 1
       /\ Cardinality(NotifiedOn({"rawMessage"})) <= 1
       /\ \A i \in NotifiedOn(MessageChannels \ {"rawMessage"}) :
            \A j \in NotifiedOn({"rawMessage"}) : i < j

\* An envelope has been notified on its own channel and on the raw one.
C18_Witness ==
  /\ MessageStep
  /\ NotifiedOn({"jobStatus"}) # {}
  /\ NotifiedOn({"rawMessage"}) # {}

\* C19: a frame that is not JSON produces exactly one local error
\* notification and no notification on a message channel, and leaves the
\* connection state (and the rest of the client) as it was, so that later
\* frames are processed.
C19_ParseErrorIsLocal ==
  [][(last'.op = "message" /\ last'.received.data.parse = "invalid")
       => /\ Cardinality(Emitted(emitted', "error")) = 1
          /\ NotifiedOn(MessageChannels)' = {}
          /\ ~last'.thrown
          /\ connectionState(State)' = connectionState(State)
          /\ client' = client
          /\ sockets' = sockets /\ timers' = timers]_vars

\* C20: a frame that is JSON but has no type, or an empty one, is dropped:
\* it is reported as a local error and notified on no message channel.
C20_UntypedFrameDropped ==
  (MessageStep /\ Frame.parse = "object" /\ (~Frame.hasType \/ Frame.type = ""))
    => /\ NotifiedOn(MessageChannels) = {}
       /\ Emitted(emitted, "error") # {}

\* C21: a heartbeat timer is armed only while the channel is connected: it
\* is armed by the open of the current transport and no longer armed once
\* the channel has left connected, on whichever path.
C21_HeartbeatOnlyWhileConnected ==
  /\ [](Armed("ping") # {} => connectionState(State) = "connected")
  /\ [][(last'.op = "open" /\ last'.t = ws)
          => \E x \in Armed("ping")' : x.id = pingInterval']_vars

\* C22: at most one heartbeat timer and at most one reconnect timer are
\* armed, and every armed timer is the one the handle of its kind refers
\* to, so that cleanup() can cancel it.
C22_TimersTracked ==
  /\ Cardinality(Armed("ping")) <= 1
  /\ Cardinality(Armed("reconnect")) <= 1
  /\ \A x \in Armed("ping") : x.id = pingInterval
  /\ \A x \in Armed("reconnect") : x.id = reconnectTimeout

\* C23: send(message) on a transport that is not open puts no frame on the
\* wire, emits exactly one error notification and changes nothing else; the
\* message is not kept: no later step puts it on the wire.
C23_SendWhileNotOpen ==
  /\ [][(last'.op = "send" /\ ReadyStateOf(State) # "OPEN")
          => /\ sent' = << >>
             /\ Len(emitted') = 1 /\ emitted'[1].ev = "error"
             /\ ~last'.thrown
             /\ UNCHANGED << client, sockets, timers, filters >>]_vars
  /\ [][last'.op # "send"
          => \A i \in 1..Len(sent') : sent'[i].msg \notin CallerMessages]_vars

\* The last step was a connection failure: the constructor threw inside
\* connect(), or (the flag unset) a transport closed abnormally.
TransportFailure ==
  \/ (last.op = "connect" /\ wsThrows /\ last.created = 0 /\ isConnecting = FALSE
        /\ (emitted # << >> \/ last.thrown))
  \/ (last.op \in {"close", "error"} /\ AbnormalClosure(emitted)
        /\ shouldReconnect)

\* C24: a connection failure never throws to the caller of connect() and is
\* followed by the reconnect schedule (a reconnect is scheduled, or
\* reconnect-exhausted is emitted), with or without a subscriber to errors.
C24_FailureNeverThrown ==
  TransportFailure
    => /\ ~(last.op = "connect" /\ last.thrown)
       /\ \/ (Emitted(emitted, "reconnecting") # {} /\ ReconnectPending)
          \/ Emitted(emitted, "reconnectFailed") # {}

\* C30: updateFilters on a transport that is not open stores the new filter
\* set, sends no frame and emits exactly one error notification through
\* send(); the rest of the client is left as it was.
C30_UpdateFiltersWhileNotOpen ==
  [][(last'.op = "updateFilters" /\ ReadyStateOf(State) # "OPEN")
       => /\ filters' \in FilterSets
          /\ sent' = << >>
          /\ Len(emitted') = 1 /\ emitted'[1].ev = "error"
          /\ ~last'.thrown
          /\ UNCHANGED << client, sockets, timers >>]_vars

\* The channel is at rest: disconnected, no timer armed, no transport
\* connecting or open.
Quiescent ==
  /\ connectionState(State) = "disconnected"
  /\ timers = {}
  /\ LiveTransports = {}

\* C25: when every connection attempt ends in an abnormal closure and the
\* application calls nothing after the initial connect(), the channel (its
\* retry limit being at least 1) eventually emits reconnect-exhausted and
\* is at rest from then on.
C25_EventuallyExhausted ==
  (last.op = "connect" /\ last.by = "caller")
    ~> [](Emitted(emitted, "reconnectFailed") # {} /\ Quiescent)

\* The closure that follows the last allowed reconnect has been reported.
C25_Witness ==
  /\ last.op = "error"
  /\ Emitted(emitted, "reconnectFailed") # {}
  /\ Quiescent
  /\ reconnectCount = reconnectAttempts
  /\ Len(sockets) = reconnectAttempts + 1

\* The last step was an abnormal closure reported to a channel whose flag
\* is unset and whose retry budget (at least 1) is spent.
ClosureAfterExhausted ==
  /\ last'.op \in {"close", "error"}
  /\ AbnormalClosure(emitted')
  /\ shouldReconnect
  /\ reconnectAttempts >= 1
  /\ reconnectCount >= reconnectAttempts

\* Such a closure emits reconnect-exhausted and schedules no retry.
ExhaustedAgain ==
  [][ClosureAfterExhausted
       => /\ Emitted(emitted', "reconnectFailed") # {}
          /\ Emitted(emitted', "reconnecting") = {}
          /\ Armed("reconnect")' \subseteq Armed("reconnect")
          /\ reconnectCount' = reconnectCount]_vars

\* RetryCounter returns to 0 only in the open of a transport.
ResetOnlyByOpen ==
  [][(reconnectCount # 0 /\ reconnectCount' < reconnectCount)
       => (last'.op = "open" /\ reconnectCount' = 0)]_vars

\* C26 as stated: RetryCounter is reset only by an open; connect() and
\* disconnect() leave it unchanged; hence an abnormal closure that follows
\* an explicit connect() after reconnect-exhausted emits reconnect-exhausted
\* again and schedules no retry.
C26_CounterUnchangedByCalls ==
  /\ ResetOnlyByOpen
  /\ [][(last'.op \in {"connect", "disconnect"} /\ last'.by = "caller")
          => reconnectCount' = reconnectCount]_vars
  /\ ExhaustedAgain

\* C26 amended: RetryCounter is reset only by an open; disconnect() leaves
\* it unchanged, and connect() leaves it unchanged when it creates a
\* transport or does nothing, and otherwise (the transport cannot be
\* created) adds the reconnect it schedules; an abnormal closure that
\* follows an explicit connect() after reconnect-exhausted emits
\* reconnect-exhausted again and schedules no retry.
C26_CounterResetOnlyByOpen ==
  /\ ResetOnlyByOpen
  /\ [][(last'.op = "disconnect" \/ (last'.op = "connect" /\ ~wsThrows))
          => reconnectCount' = reconnectCount]_vars
  /\ [][(last'.op = "connect" /\ wsThrows)
          => reconnectCount' =
               reconnectCount + Cardinality(Emitted(emitted', "reconnecting"))]_vars
  /\ ExhaustedAgain

\* The attempt of an explicit connect() made after reconnect-exhausted has
\* failed, and reconnect-exhausted has been emitted once more.
C26_Witness ==
  /\ last.op \in {"close", "error"} /\ last.t = ws
  /\ Emitted(emitted, "reconnectFailed") # {}
  /\ shouldReconnect /\ ~wsThrows
  /\ reconnectAttempts >= 1
  /\ reconnectCount = reconnectAttempts
  /\ abnormalRun = reconnectAttempts + 2

\* C27: with maxReconnectAttempts 0 the first abnormal closure emits
\* reconnect-exhausted, no reconnect timer is ever armed and no timer
\* callback ever starts a connection attempt (the transports being ones
\* that can be constructed).
C27_ZeroAttemptsNeverRetries ==
  (reconnectAttempts = 0 /\ ~wsThrows)
    => /\ Armed("reconnect") = {}
       /\ Emitted(emitted, "reconnecting") = {}
       /\ ~(last.op = "connect" /\ last.by = "timer")
       /\ (last.op \in {"close", "error"} /\ AbnormalClosure(emitted)
             /\ abnormalRun = 1 /\ shouldReconnect
            => Emitted(emitted, "reconnectFailed") # {})

\* C28: reconnect-exhausted is emitted only where RetryCounter has reached
\* maxReconnectAttempts and the no-auto-reconnect flag is unset: never
\* after disconnect(), never while the retry budget is not spent.
C28_ExhaustedOnlyWhenSpent ==
  Emitted(emitted, "reconnectFailed") # {}
    => (reconnectCount >= reconnectAttempts /\ shouldReconnect)

PingFrame == [type |-> "ping", arg |-> << >>]

\* C31: a heartbeat tick sends a ping frame only if the current transport
\* is open at that instant, and then on that transport; a tick on a
\* transport that is not open sends no frame, requests no closure,
\* schedules no reconnect, emits nothing and changes neither RetryCounter
\* nor the connection state.
C31_TickSendsOnlyWhenOpen ==
  [][last'.op = "ping"
       => /\ sent' = IF ReadyStateOf(State) = "OPEN"
                     THEN << [t |-> ws, msg |-> PingFrame] >>
                     ELSE << >>
          /\ last'.closed = << >> /\ last'.created = 0 /\ ~last'.thrown
          /\ emitted' = << >>
          /\ connectionState(State)' = connectionState(State)
          /\ UNCHANGED << client, sockets, timers >>]_vars

\* A heartbeat timer has ticked while the current transport was closing.
C31_Witness ==
  /\ last.op = "ping"
  /\ connectionState(State) = "closing"
  /\ sent = << >>

\* C32: handling an inbound frame of any kind leaves the life cycle as it
\* was: the current transport, the connecting flag, the no-auto-reconnect
\* flag, RetryCounter, the stored filter set and both timer handles.
C32_FramesLeaveLifecycle ==
  [][last'.op = "message"
       => UNCHANGED << ws, isConnecting, shouldReconnect, reconnectCount,
                       filters, pingInterval, reconnectTimeout >>]_vars

\* A frame that is not JSON has been handled while the channel was
\* connecting (it came from the transport the channel owned before).
C32_Witness ==
  /\ MessageStep
  /\ Frame.parse = "invalid"
  /\ isConnecting
  /\ last.t # ws

\* C33: every connection attempt (of the caller or of the reconnect timer)
\* is opened with the token and with the filter set the application gave
\* last, to updateFilters or else to the constructor; with no filter set
\* the URL has no filters parameter.
C33_AttemptCarriesStoredFilters ==
  /\ [][(last'.created # 0 \/ (last'.op = "connect" /\ wsThrows
                                 /\ ~connectRefused(State)))
          => last'.url # NoUrl]_vars
  /\ [][last'.url # NoUrl
          => /\ last'.url.token = Token
             /\ last'.url.filters = IF declared.defined
                                    THEN << declared.fields >>
                                    ELSE << >>]_vars

\* The reconnect timer has started an attempt that carries a filter set.
C33_Witness ==
  /\ last.op = "connect" /\ last.by = "timer"
  /\ last.created # 0
  /\ last.url.filters = << {"account_ids"} >>

\* C34: the k-th reconnecting notification since the last open (or the
\* start) carries attempt k, the configured maximum and the delay armed on
\* the reconnect timer; the numbering restarts at 1 after every open and
\* never exceeds the maximum.
C34_ReconnectingPayload ==
  /\ [](\A i \in Emitted(emitted, "reconnecting") :
          /\ emitted[i].arg[1] = reconnectCount
          /\ emitted[i].arg[1] <= reconnectAttempts
          /\ emitted[i].arg[2] = reconnectAttempts
          /\ \E x \in Armed("reconnect") :
               /\ x.id = reconnectTimeout
               /\ x.delay = << emitted[i].arg[3], emitted[i].arg[4] >>)
  /\ [][\A i \in Emitted(emitted', "reconnecting") :
          emitted'[i].arg[1] = reconnectCount + 1]_vars
  /\ [][last'.op = "open" => reconnectCount' = 0]_vars

\* The connection states of the channel.
ConnectionStates ==
  {"disconnected", "connecting", "connected", "reconnecting", "closing"}

\* C35: the connection state the channel reports is always one of
\* disconnected, connecting, connected, reconnecting, closing, and it is
\* reconnecting whenever a reconnect timer is armed (after an abnormal
\* closure).
C35_ReportsReconnecting ==
  /\ connectionState(State) \in ConnectionStates
  /\ (Armed("reconnect") # {} /\ ~wsThrows
        => connectionState(State) = "reconnecting")

\* A connection attempt is in progress: a transport is connecting.
AttemptInProgress ==
  \E t \in 1..Len(sockets) : sockets[t].readyState = "CONNECTING"

\* C36: whenever the connectionState of useWebSocket is reconnecting, the
\* client has a reconnect timer armed or a connection attempt in progress;
\* once the client has emitted reconnect-exhausted and retries no more, the
\* hook does not report reconnecting.
C36_HookReconnecting ==
  /\ hookState = "reconnecting"
       => (Armed("reconnect") # {} \/ AttemptInProgress)
  /\ (Emitted(emitted, "reconnectFailed") # {} /\ Armed("reconnect") = {})
       => hookState # "reconnecting"
====
